---- MODULE Spec2Model ----
(***************************************************************************)
(* Model of the hot-water controller of nest-octopus                       *)
(* (src/heating_controller.py, class SmartHeatingController) and of the   *)
(* collaborators one control cycle calls.                                  *)
(*                                                                         *)
(* Time is counted in whole minutes from a Monday 00:00.  Strings such as  *)
(* "13:00" are sequences of character codes, compared as Python compares   *)
(* str values (code point by code point).  None is the empty sequence and  *)
(* a present value x is the one-element sequence <<x>>.                     *)
(***************************************************************************)
EXTENDS Integers, Sequences, FiniteSets, TLC

VARIABLES
    now,                \* the wall clock, datetime.now(), in minutes
    mode,               \* SmartHeatingController.mode
    boost_end_time,     \* SmartHeatingController.boost_end_time (None or time)
    heating_windows,    \* SmartHeatingController.heating_windows
    current_session,    \* SmartHeatingController.current_session (None or session)
    heating_sessions,   \* rows of table heating_sessions, in insertion order
    rate_fetch,         \* what octopus.get_current_rate gave the call of run just made
    rate_writes,        \* rows the call of run just made wrote to table electricity_rates
    hot_water_calls,    \* calls of nest.set_hot_water_state the call of run just made
    should_heat,        \* what should_heat_water returned to the call of run just made
    result,             \* what the call of run just made returned
    cycles,             \* number of calls of run so far
    heat_call,          \* the last direct call of should_heat_water: None before the first
    auth,               \* how nest.refresh_token_if_needed ended in the call of run just made
    opened_rejected,    \* history: the device rejected the command of the cycle that
                        \* opened the session current_session holds
    request,            \* the HTTP request a call of run waits in: None when it waits in none
    stats_call,         \* the last direct call of a statistics query: None before the first
    engine_call,        \* the last call of the temperature decision engine: None before the first
    last_adjustment,    \* LastAdjustment: when the last temperature setpoint was sent (or None)
    nest,               \* NestClient: its credentials (None or credentials) and the last
                        \* direct call of refresh_token_if_needed (None before the first)
    scheduler           \* main.py: where run_controller stands, whether an invocation is due,
                        \* and (history) the session the main house invocations left open

vars == <<now, mode, boost_end_time, heating_windows, current_session,
          heating_sessions, rate_fetch, rate_writes, hot_water_calls, should_heat,
          result, cycles, heat_call, auth, opened_rejected, request, stats_call,
          engine_call, last_adjustment, scheduler, nest>>

controller == <<mode, boost_end_time, heating_windows, current_session>>

-----------------------------------------------------------------------------
(* Bounds of the model *)

\* longest heating_windows list add_heating_window builds
MaxWindows == 1

\* longest heating_windows list should_heat_water is tried on directly
MaxHeatWindows == 2

\* most calls of run in one behaviour
MaxCycles == 3

\* the clock runs for this many minutes from StartTime
MaxClock == 2

\* most rows of table heating_sessions the statistics are tried on
MaxRows == 2

-----------------------------------------------------------------------------
(* Program constants *)

CHEAP_RATE_THRESHOLD == 15

EXPENSIVE_RATE_THRESHOLD == 25

MinutesPerDay == 1440

None == <<>>

Some(x) == <<x>>

\* character codes
Ch0 == 48

ChColon == 58

IsDigit(c) == c \in Ch0..(Ch0 + 9)

Str(h1, h2, m1, m2) == <<Ch0 + h1, Ch0 + h2, ChColon, Ch0 + m1, Ch0 + m2>>

PEAK_START == Str(1, 6, 0, 0)

PEAK_END == Str(1, 9, 0, 0)

-----------------------------------------------------------------------------
(* Python str comparison, strftime('%H:%M') and strptime(s, '%H:%M') *)

\* a <= b for two str values: the first differing character decides, and a
\* proper prefix is smaller
RECURSIVE StrLeqFrom(_, _, _)
StrLeqFrom(a, b, i) ==
    IF i > Len(a) THEN TRUE
    ELSE IF i > Len(b) THEN FALSE
    ELSE IF a[i] # b[i] THEN a[i] < b[i]
    ELSE StrLeqFrom(a, b, i + 1)

StrLeq(a, b) == StrLeqFrom(a, b, 1)

weekday(t) == (t \div MinutesPerDay) % 7

TimeOfDay(t) == t % MinutesPerDay

\* minute of the day m as 'HH:MM', zero padded
FormatHM(m) ==
    Str((m \div 60) \div 10, (m \div 60) % 10, (m % 60) \div 10, (m % 60) % 10)

strftime(t) == FormatHM(TimeOfDay(t))

\* strptime(s, '%H:%M'): the minute of the day, or -1 where Python raises
\* ValueError.  %H is 2[0-3]|[0-1]\d|\d and %M is [0-5]\d|\d, and the whole
\* string must be used.
HourLen(s) ==
    IF Len(s) >= 2 /\ IsDigit(s[1]) /\ IsDigit(s[2])
          /\ (s[1] - Ch0) * 10 + (s[2] - Ch0) <= 23
    THEN 2
    ELSE IF Len(s) >= 1 /\ IsDigit(s[1]) THEN 1 ELSE 0

strptime(s) ==
    LET hl == HourLen(s)
        h  == IF hl = 2 THEN (s[1] - Ch0) * 10 + (s[2] - Ch0) ELSE s[1] - Ch0
        r  == Len(s) - hl - 1
    IN  IF hl = 0 \/ Len(s) < hl + 2 \/ s[hl + 1] # ChColon THEN -1
        ELSE IF r = 2 /\ s[hl + 2] \in Ch0..(Ch0 + 5) /\ IsDigit(s[hl + 3])
             THEN h * 60 + (s[hl + 2] - Ch0) * 10 + (s[hl + 3] - Ch0)
        ELSE IF r = 1 /\ IsDigit(s[hl + 2])
             THEN h * 60 + (s[hl + 2] - Ch0)
        ELSE -1

-----------------------------------------------------------------------------
(* The decision: is_peak_time and should_heat_water *)

\* is_peak_time with the end of the interval left out (now < PEAK_END)
is_peak_time_end_excluded(t) ==
    /\ StrLeq(PEAK_START, strftime(t))
    /\ StrLeq(strftime(t), PEAK_END)
    /\ strftime(t) # PEAK_END

\* is_peak_time, with t the clock value its datetime.now() reads
is_peak_time(t) == StrLeq(PEAK_START, strftime(t)) /\ StrLeq(strftime(t), PEAK_END)

\* one window of the loop of should_heat_water: "skip", "match", or "raise"
\* where strptime raises ValueError
WindowOutcome(w, t) ==
    IF ~w.enabled THEN "skip"
    ELSE IF weekday(t) \notin w.days THEN "skip"
    ELSE IF strptime(w.start_time) = -1 THEN "raise"
    ELSE LET window_end_str == FormatHM((strptime(w.start_time) + w.duration) % MinutesPerDay)
         IN  IF StrLeq(w.start_time, strftime(t)) /\ StrLeq(strftime(t), window_end_str)
             THEN "match" ELSE "skip"

\* the loop over heating_windows from index i: the first window that matches
\* or raises ends it
RECURSIVE ScanWindows(_, _, _)
ScanWindows(ws, i, t) ==
    IF i > Len(ws) THEN "none"
    ELSE IF WindowOutcome(ws[i], t) = "skip" THEN ScanWindows(ws, i + 1, t)
    ELSE WindowOutcome(ws[i], t)

\* should_heat_water raises: only the window loop can, and only when
\* the mode is neither off nor boost and is_peak_time is false
ShouldHeatRaises(m, bet, ws, current_rate, t, tp) ==
    /\ m # "off"
    /\ m # "boost"
    /\ ~is_peak_time(tp)
    /\ ScanWindows(ws, 1, t) = "raise"

\* the boost branch with the expiry itself still boosting (now <= boost_end_time)
BoostActiveAtExpiry(bet, t) == IF bet # None THEN t <= bet[1] ELSE FALSE

\* the boost branch: now < self.boost_end_time if self.boost_end_time else False
BoostActive(bet, t) == IF bet # None THEN t < bet[1] ELSE FALSE

\* should_heat_water without the check of mode "off"
should_heat_water_off_unchecked(m, bet, ws, current_rate, t, tp) ==
    IF m = "boost" THEN BoostActive(bet, t)
    ELSE IF is_peak_time(tp) THEN FALSE
    ELSE IF ScanWindows(ws, 1, t) = "match" THEN TRUE
    ELSE current_rate < CHEAP_RATE_THRESHOLD

\* should_heat_water that remembers it was called: only the first call decides,
\* every later one answers False
should_heat_water_first_call_only(m, bet, ws, current_rate, t, tp) ==
    IF heat_call # None THEN FALSE
    ELSE IF m = "off" THEN FALSE
    ELSE IF m = "boost" THEN BoostActive(bet, t)
    ELSE IF is_peak_time(tp) THEN FALSE
    ELSE IF ScanWindows(ws, 1, t) = "match" THEN TRUE
    ELSE current_rate < CHEAP_RATE_THRESHOLD

\* should_heat_water that decides as in optimized mode once the boost is over
should_heat_water_boost_lapses(m, bet, ws, current_rate, t, tp) ==
    IF m = "off" THEN FALSE
    ELSE IF m = "boost" /\ BoostActive(bet, t) THEN TRUE
    ELSE IF is_peak_time(tp) THEN FALSE
    ELSE IF ScanWindows(ws, 1, t) = "match" THEN TRUE
    ELSE current_rate < CHEAP_RATE_THRESHOLD

\* should_heat_water(current_rate) on mode m, boost_end_time bet and
\* heating_windows ws; t is the clock its own datetime.now() reads and tp the
\* clock the nested is_peak_time reads
should_heat_water(m, bet, ws, current_rate, t, tp) ==
    IF m = "off" THEN FALSE
    ELSE IF m = "boost" THEN BoostActive(bet, t)
    ELSE IF is_peak_time(tp) THEN FALSE
    ELSE IF ScanWindows(ws, 1, t) = "match" THEN TRUE
    ELSE current_rate < CHEAP_RATE_THRESHOLD

-----------------------------------------------------------------------------
(* Inputs the environment supplies *)

\* prices the rate feed returns (pence per kWh)
Rates == {10, 20}

\* mode strings a caller passes to set_mode
Modes == {"optimized", "boost", "off"}

\* boost_duration arguments: None, 0 and 1 minute (a boost that is over before
\* the peak interval starts)
BoostDurations == {None, Some(0), Some(1)}

HeatingWindow(s, d, ds, e) == [start_time |-> s, duration |-> d, days |-> ds, enabled |-> e]

\* '13:00' for an hour on Mondays
W1300 == HeatingWindow(Str(1, 3, 0, 0), 60, {0}, TRUE)

\* '23:30' for an hour on Mondays: ends after midnight
W2330 == HeatingWindow(Str(2, 3, 3, 0), 60, {0}, TRUE)

\* '16:30' for an hour on Mondays: inside the peak interval
W1630 == HeatingWindow(Str(1, 6, 3, 0), 60, {0}, TRUE)

\* '13:00' for an hour on Mondays, disabled
WOff == HeatingWindow(Str(1, 3, 0, 0), 60, {0}, FALSE)

\* '13:00' for an hour on Tuesdays
WTue == HeatingWindow(Str(1, 3, 0, 0), 60, {1}, TRUE)

\* '1300' on Mondays: not HH:MM
WBad == HeatingWindow(<<Ch0 + 1, Ch0 + 3, Ch0, Ch0>>, 60, {0}, TRUE)

\* '15:59' for a minute on Mondays: reaches the start of the peak interval
W1559 == HeatingWindow(Str(1, 5, 5, 9), 1, {0}, TRUE)

\* the clock when the controller is constructed: 15:58 on a Monday
StartTime == 958

\* the clock while one call runs: it reads now up to some datetime.now() and
\* one minute later from then on.  A drift p gives the number of reads, out of
\* the six of one cycle, that still see now.
Drifts == 0..6

ClockAt(p, i) == IF i > p THEN now + 1 ELSE now

\* the clock can still move
CanDrift(p) == p = 6 \/ now < StartTime + MaxClock

-----------------------------------------------------------------------------
(* The controller *)

\* SmartHeatingController.__init__ on a fresh database
Init ==
    /\ now = StartTime
    /\ mode = "optimized"
    /\ boost_end_time = None
    /\ heating_windows = <<>>
    /\ current_session = None
    /\ heating_sessions = <<>>
    /\ rate_fetch = "not called"
    /\ rate_writes = {}
    /\ hot_water_calls = <<>>
    /\ should_heat = None
    /\ result = None
    /\ cycles = 0
    /\ heat_call = None
    /\ auth = "not called"
    /\ opened_rejected = FALSE
    /\ request = None
    /\ stats_call = None
    /\ engine_call = None
    /\ last_adjustment = None
    /\ scheduler = [at |-> "idle", due |-> TRUE, opened |-> None]
    /\ nest = [credentials |-> None, refresh_call |-> None]

\* a step that is no call of run: there is nothing a cycle returned or did
NoCycle ==
    /\ result' = None
    /\ should_heat' = None
    /\ hot_water_calls' = <<>>
    /\ rate_fetch' = "not called"
    /\ rate_writes' = {}
    /\ auth' = "not called"

\* time passing between calls
Tick ==
    /\ now < StartTime + MaxClock
    /\ now' = now + 1
    /\ NoCycle
    /\ UNCHANGED <<controller, heating_sessions, cycles, heat_call, nest, scheduler,
                   engine_call, last_adjustment, stats_call, opened_rejected, request>>

\* the wall clock is set back between calls: datetime.now() is the naive local
\* time of the host, which the end of daylight saving time or a correction of
\* the system clock moves backwards
ClockSetBack ==
    /\ now > StartTime
    /\ now' = now - 1
    /\ NoCycle
    /\ UNCHANGED <<controller, heating_sessions, cycles, heat_call, nest, scheduler,
                   engine_call, last_adjustment, stats_call, opened_rejected, request>>

\* set_mode that leaves boost_end_time alone when the mode is not boost
set_mode_expiry_kept(m, boost_duration) ==
    /\ mode' = m
    /\ boost_end_time' =
          IF m = "boost" /\ boost_duration # None /\ boost_duration[1] # 0
          THEN Some(now + boost_duration[1])
          ELSE boost_end_time
    /\ NoCycle
    /\ UNCHANGED <<now, heating_windows, current_session, heating_sessions, cycles,
                   heat_call, nest, scheduler, engine_call, last_adjustment, stats_call,
                   opened_rejected, request>>

\* set_mode(m, boost_duration)
set_mode(m, boost_duration) ==
    /\ mode' = m
    /\ boost_end_time' =
          IF m = "boost" /\ boost_duration # None /\ boost_duration[1] # 0
          THEN Some(now + boost_duration[1])
          ELSE IF m # "boost" THEN None
          ELSE boost_end_time
    /\ NoCycle
    /\ UNCHANGED <<now, heating_windows, current_session, heating_sessions, cycles,
                   heat_call, nest, scheduler, engine_call, last_adjustment, stats_call,
                   opened_rejected, request>>

\* add_heating_window(window)
add_heating_window(window) ==
    /\ Len(heating_windows) < MaxWindows
    /\ heating_windows' = Append(heating_windows, window)
    /\ NoCycle
    /\ UNCHANGED <<now, mode, boost_end_time, current_session, heating_sessions, cycles,
                   heat_call, nest, scheduler, engine_call, last_adjustment, stats_call,
                   opened_rejected, request>>

-----------------------------------------------------------------------------
(* One control cycle *)

\* a failure dict without the error entry
FailureNoMessage(msg) == Some([success |-> FALSE])

\* the dict run returns from its except branch and from the failed rate fetch
Failure(msg) == Some([success |-> FALSE, error |-> msg])

\* HeatingSession(start_time, end_time=None, rate, completed=False)
HeatingSession(t, r) == [start_time |-> t, end_time |-> None, rate |-> r, completed |-> FALSE]

\* cost is kept in twentieths of a penny, so that (duration / 60) * rate * 3
\* is a whole number for whole minutes and whole pence
CostUnit == 20

\* log_heating_session that leaves the 3 kW of the heater out of the cost
log_heating_session_without_power(session) ==
    IF ~session.completed \/ session.end_time = None THEN heating_sessions
    ELSE LET duration == session.end_time[1] - session.start_time
         IN  Append(heating_sessions,
                    [start_time |-> session.start_time,
                     end_time |-> session.end_time[1],
                     duration_minutes |-> duration,
                     rate |-> session.rate,
                     cost |-> (duration * session.rate * CostUnit) \div 60])

\* the table heating_sessions after log_heating_session(session), when the
\* INSERT does not raise
log_heating_session(session) ==
    IF ~session.completed \/ session.end_time = None THEN heating_sessions
    ELSE LET duration == session.end_time[1] - session.start_time
         IN  Append(heating_sessions,
                    [start_time |-> session.start_time,
                     end_time |-> session.end_time[1],
                     duration_minutes |-> duration,
                     rate |-> session.rate,
                     cost |-> (duration * session.rate * 3 * CostUnit) \div 60])

\* the rows log_electricity_rate(timestamp, rate) writes: INSERT OR REPLACE of
\* one row, whose primary key is timestamp
log_electricity_rate(timestamp, rate) == {[timestamp |-> timestamp, rate |-> rate]}

\* what nest.set_hot_water_state(is_on) returns: True when the device took the
\* command, False when the request failed or the client has no device
DeviceOutcomes == BOOLEAN

\* set_hot_water_state that sends the opposite of the state it is given
set_hot_water_state_inverted(is_on, returned) == <<[is_on |-> ~is_on, returned |-> returned]>>

\* the calls of nest.set_hot_water_state of a cycle that reaches line 201: the
\* one call set_hot_water_state(is_on), with what it returned
set_hot_water_state(is_on, returned) == <<[is_on |-> is_on, returned |-> returned]>>

\* run when refresh_token_if_needed raises.  (The value it returns is not
\* looked at: a False goes on to the rate fetch like a True.)
RunAuthRaises ==
    /\ result' = Failure("refresh error")
    /\ rate_fetch' = "not called"
    /\ should_heat' = None
    /\ hot_water_calls' = <<>>
    /\ rate_writes' = {}
    /\ UNCHANGED <<now, current_session, heating_sessions>>

\* run that switches the hot water off when get_current_rate returns None
RunRateUnavailableSwitchesOff ==
    /\ result' = Failure("Failed to get current rate")
    /\ rate_fetch' = "None"
    /\ should_heat' = None
    /\ hot_water_calls' = <<[is_on |-> FALSE, returned |-> TRUE]>>
    /\ rate_writes' = {}
    /\ UNCHANGED <<now, current_session, heating_sessions>>

\* run when get_current_rate returns None
RunRateUnavailable ==
    /\ result' = Failure("Failed to get current rate")
    /\ rate_fetch' = "None"
    /\ should_heat' = None
    /\ hot_water_calls' = <<>>
    /\ rate_writes' = {}
    /\ UNCHANGED <<now, current_session, heating_sessions>>

\* session tracking that does not clear current_session after logging it
SessionAfterNotCleared(heat, t_sess, current_rate) ==
    IF heat /\ current_session = None THEN Some(HeatingSession(t_sess, current_rate))
    ELSE current_session

\* session tracking that opens no session
SessionAfterNeverOpened(heat, t_sess, current_rate) ==
    IF ~heat /\ current_session # None THEN None
    ELSE current_session

\* session tracking that starts a new session on every decision to heat
SessionAfterReopened(heat, t_sess, current_rate) ==
    IF heat THEN Some(HeatingSession(t_sess, current_rate))
    ELSE IF current_session # None THEN None
    ELSE current_session

\* session tracking that opens a session only for heating at a cheap rate
SessionAfterCheapOnly(heat, t_sess, current_rate) ==
    IF heat /\ current_session = None /\ current_rate < CHEAP_RATE_THRESHOLD
    THEN Some(HeatingSession(t_sess, current_rate))
    ELSE IF ~heat /\ current_session # None THEN None
    ELSE current_session

\* current_session after the session tracking of run, when nothing raises
SessionAfter(heat, t_sess, current_rate) ==
    IF heat /\ current_session = None THEN Some(HeatingSession(t_sess, current_rate))
    ELSE IF ~heat /\ current_session # None THEN None
    ELSE current_session

\* run with the rate current_rate, from log_electricity_rate on; p is the drift
\* of the clock.  Each disjunct is one way the rest of the try block ends.
RunWithRate(current_rate, p) ==
    LET t_log   == ClockAt(p, 1)
        t_heat  == ClockAt(p, 2)
        t_peak  == ClockAt(p, 3)
        t_flag  == ClockAt(p, 4)
        t_sess  == ClockAt(p, 5)
        t_ret   == ClockAt(p, 6)
        raises  == ShouldHeatRaises(mode, boost_end_time, heating_windows,
                                    current_rate, t_heat, t_peak)
        heat    == should_heat_water(mode, boost_end_time, heating_windows,
                                     current_rate, t_heat, t_peak)
        is_peak == is_peak_time(t_flag)
        closes  == ~heat /\ current_session # None
        closed  == [current_session[1] EXCEPT !.end_time = Some(t_sess), !.completed = TRUE]
    IN  /\ rate_fetch' = "rate"
        /\ \/ \* log_electricity_rate raises
              /\ result' = Failure("database error")
              /\ should_heat' = None
              /\ now' = t_log
              /\ hot_water_calls' = <<>>
              /\ rate_writes' = {}
              /\ UNCHANGED <<current_session, heating_sessions>>
           \/ \* should_heat_water raises
              /\ raises
              /\ rate_writes' = log_electricity_rate(t_log, current_rate)
              /\ result' = Failure("time data does not match format")
              /\ should_heat' = None
              /\ now' = t_peak
              /\ hot_water_calls' = <<>>
              /\ UNCHANGED <<current_session, heating_sessions>>
           \/ \* log_heating_session raises
              /\ ~raises
              /\ closes
              /\ rate_writes' = log_electricity_rate(t_log, current_rate)
              /\ current_session' = Some(closed)
              /\ result' = Failure("database error")
              /\ should_heat' = Some(heat)
              /\ now' = t_sess
              /\ hot_water_calls' = <<>>
              /\ UNCHANGED heating_sessions
           \/ \* the device is commanded; a statistics query may still raise
              /\ ~raises
              /\ rate_writes' = log_electricity_rate(t_log, current_rate)
              /\ should_heat' = Some(heat)
              /\ current_session' = SessionAfter(heat, t_sess, current_rate)
              /\ heating_sessions' =
                    IF closes THEN log_heating_session(closed) ELSE heating_sessions
              /\ \E device \in DeviceOutcomes :
                    hot_water_calls' = set_hot_water_state(heat, device)
              /\ now' = t_ret
              /\ \E stats_raise \in BOOLEAN :
                    result' =
                       IF stats_raise THEN Failure("database error")
                       ELSE Some([success |-> TRUE,
                                  current_rate |-> current_rate,
                                  mode |-> mode,
                                  is_heating |-> heat,
                                  is_peak |-> is_peak,
                                  boost_remaining |->
                                      IF boost_end_time # None
                                      THEN boost_end_time[1] - t_ret ELSE 0])

\* how refresh_token_if_needed ends: it returns True, it returns False
\* (no credentials, or they cannot be refreshed), or it raises
AuthOutcomes == {"ok", "failed", "raised"}

\* run(), with a the way refresh_token_if_needed ends.  Line 171 calls it as a
\* statement: what it returns is not looked at, so that "failed" goes on to
\* the rate fetch as "ok" does.
run(a) ==
    /\ cycles < MaxCycles
    /\ cycles' = cycles + 1
    /\ auth' = a
    /\ UNCHANGED <<mode, boost_end_time, heating_windows, heat_call, nest, engine_call,
                   last_adjustment, stats_call, request>>
    /\ IF a = "raised" THEN RunAuthRaises
       ELSE \/ RunRateUnavailable
            \/ \E current_rate \in Rates, p \in Drifts :
                  CanDrift(p) /\ RunWithRate(current_rate, p)

\* windows a caller adds while the controller runs
Windows == {W1559, WBad}

\* the ways refresh_token_if_needed ends in the cycles of Spec: a cycle in
\* which it returns False is, for the controller, the cycle in which it
\* returns True
CycleAuthOutcomes == {"ok", "raised"}

Next ==
    \/ Tick
    \/ \E a \in CycleAuthOutcomes : run(a) /\ UNCHANGED <<opened_rejected, scheduler>>
    \/ \E m \in Modes, boost_duration \in BoostDurations : set_mode(m, boost_duration)
    \/ \E window \in Windows : add_heating_window(window)

Spec == Init /\ [][Next]_vars

-----------------------------------------------------------------------------
(* The life of a session: cycles of a controller left in optimized mode      *)
(* without windows, under a wall clock that can be set back, with every way  *)
(* the auth refresh ends and with the history of the device's answer         *)

\* opened_rejected after a call of run: set by the cycle that opens a session,
\* cleared when current_session is cleared
RejectedAfter ==
    IF current_session = None /\ current_session' # None
    THEN hot_water_calls' # <<>> /\ ~hot_water_calls'[1].returned
    ELSE IF current_session' = None THEN FALSE
    ELSE opened_rejected

NextSession ==
    \/ Tick
    \/ ClockSetBack
    \/ \E a \in AuthOutcomes : run(a) /\ opened_rejected' = RejectedAfter /\ UNCHANGED scheduler

SpecSession == Init /\ [][NextSession]_vars

-----------------------------------------------------------------------------
(* The periodic scheduler of main.py: run_controller once at startup and     *)
(* then every 30 minutes.  Each invocation constructs a controller for the   *)
(* main house and one for the basement and calls run on each.  The           *)
(* controller variables hold the fields of the object whose run is next.     *)

\* schedule.every(30).minutes
ScheduleMinutes == 30

\* the fields SmartHeatingController.__init__ gives a new object; the tables
\* are created only if they do not exist, so the stored rows stay
Constructed ==
    /\ mode' = "optimized"
    /\ boost_end_time' = None
    /\ heating_windows' = <<>>
    /\ current_session' = None
    /\ UNCHANGED heating_sessions

\* the session the main house invocations hold open, as the scheduler's
\* history has it after a call of run on the main house controller
OpenedAfter ==
    IF should_heat' = Some(TRUE) /\ scheduler.opened = None /\ current_session' # None
    THEN current_session'
    ELSE IF should_heat' = Some(FALSE) THEN None
    ELSE scheduler.opened

\* run_controller, lines 23-24: both controllers are constructed
run_controller_begin ==
    /\ scheduler.at = "idle"
    /\ scheduler.due
    /\ cycles < MaxCycles
    /\ Constructed
    /\ NoCycle
    /\ scheduler' = [scheduler EXCEPT !.at = "main", !.due = FALSE]
    /\ UNCHANGED <<now, cycles, heat_call, nest, opened_rejected, request, stats_call,
                   engine_call, last_adjustment>>

\* run_controller, line 26: main_controller.run()
run_controller_main(a) ==
    /\ scheduler.at = "main"
    /\ run(a)
    /\ scheduler' = [scheduler EXCEPT !.at = "main done", !.opened = OpenedAfter]
    /\ UNCHANGED opened_rejected

\* run_controller, line 29, its receiver: basement_controller as line 24
\* constructed it
run_controller_basement ==
    /\ scheduler.at = "main done"
    /\ Constructed
    /\ NoCycle
    /\ scheduler' = [scheduler EXCEPT !.at = "basement"]
    /\ UNCHANGED <<now, cycles, heat_call, nest, opened_rejected, request, stats_call,
                   engine_call, last_adjustment>>

\* run_controller, line 29: basement_controller.run(); both objects are
\* dropped when run_controller returns
run_controller_basement_run(a) ==
    /\ scheduler.at = "basement"
    /\ run(a)
    /\ scheduler' = [scheduler EXCEPT !.at = "idle"]
    /\ UNCHANGED opened_rejected

\* the loop of main: schedule.run_pending once the 30 minutes are over
ScheduleWait ==
    /\ scheduler.at = "idle"
    /\ ~scheduler.due
    /\ cycles < MaxCycles
    /\ now' = now + ScheduleMinutes
    /\ scheduler' = [scheduler EXCEPT !.due = TRUE]
    /\ NoCycle
    /\ UNCHANGED <<controller, heating_sessions, cycles, heat_call, nest, opened_rejected,
                   request, stats_call, engine_call, last_adjustment>>

NextSchedule ==
    \/ run_controller_begin
    \/ \E a \in AuthOutcomes : run_controller_main(a)
    \/ run_controller_basement
    \/ \E a \in AuthOutcomes : run_controller_basement_run(a)
    \/ ScheduleWait

SpecSchedule == Init /\ [][NextSchedule]_vars

-----------------------------------------------------------------------------
(* One cycle step by step, stopping where run waits for an HTTP response:    *)
(* requests.get of get_current_rate and requests.post of                     *)
(* set_hot_water_state.  The controller is left in optimized mode without    *)
(* windows and the clock stands still.                                       *)

\* seconds requests.get waits for the rate feed: timeout=10
RateRequestTimeout == 10

\* the request get_current_rate makes
RateRequest == [to |-> "rate feed", timeout |-> Some(RateRequestTimeout)]

\* the request set_hot_water_state(is_on) makes: requests.post is called
\* without a timeout argument, so it waits for as long as the peer is silent
DeviceRequest(is_on) == [to |-> "device", timeout |-> None, is_on |-> is_on]

\* run() up to the request of get_current_rate
NetBegin(a) ==
    /\ request = None
    /\ cycles < MaxCycles
    /\ cycles' = cycles + 1
    /\ auth' = a
    /\ UNCHANGED <<now, controller, heating_sessions, heat_call, nest, scheduler,
                   engine_call, last_adjustment, stats_call, opened_rejected>>
    /\ IF a = "raised"
       THEN /\ result' = Failure("refresh error")
            /\ request' = None
       ELSE /\ result' = None
            /\ request' = Some(RateRequest)
    /\ should_heat' = None
    /\ hot_water_calls' = <<>>
    /\ rate_fetch' = "not called"
    /\ rate_writes' = {}

\* get_current_rate returns None: run returns its failure dict
NetRateUnavailable ==
    /\ result' = Failure("Failed to get current rate")
    /\ rate_fetch' = "None"
    /\ request' = None
    /\ UNCHANGED <<now, controller, heating_sessions, rate_writes, hot_water_calls,
                   should_heat, cycles, heat_call, nest, scheduler, engine_call,
                   last_adjustment, stats_call, auth, opened_rejected>>

\* the rate feed answers.  An answer without a usable rate makes
\* get_current_rate return None; with the rate current_rate run goes on to
\* the request of set_hot_water_state, unless a database call raises before.
NetRateAnswer ==
    /\ request # None
    /\ request[1].to = "rate feed"
    /\ \/ NetRateUnavailable
       \/ \E current_rate \in Rates :
             LET heat   == should_heat_water(mode, boost_end_time, heating_windows,
                                             current_rate, now, now)
                 closes == ~heat /\ current_session # None
                 closed == [current_session[1] EXCEPT !.end_time = Some(now),
                                                      !.completed = TRUE]
             IN  /\ rate_fetch' = "rate"
                 /\ hot_water_calls' = <<>>
                 /\ UNCHANGED <<now, mode, boost_end_time, heating_windows, cycles,
                                heat_call, nest, scheduler, engine_call, last_adjustment,
                                stats_call, auth, opened_rejected>>
                 /\ \/ \* log_electricity_rate raises
                       /\ rate_writes' = {}
                       /\ should_heat' = None
                       /\ result' = Failure("database error")
                       /\ request' = None
                       /\ UNCHANGED <<current_session, heating_sessions>>
                    \/ \* log_heating_session raises
                       /\ closes
                       /\ rate_writes' = log_electricity_rate(now, current_rate)
                       /\ should_heat' = Some(heat)
                       /\ current_session' = Some(closed)
                       /\ result' = Failure("database error")
                       /\ request' = None
                       /\ UNCHANGED heating_sessions
                    \/ \* set_hot_water_state sends its request
                       /\ rate_writes' = log_electricity_rate(now, current_rate)
                       /\ should_heat' = Some(heat)
                       /\ current_session' = SessionAfter(heat, now, current_rate)
                       /\ heating_sessions' =
                             IF closes THEN log_heating_session(closed) ELSE heating_sessions
                       /\ result' = None
                       /\ request' = Some(DeviceRequest(heat))

\* the rest of run once set_hot_water_state has returned the value returned
NetAfterDevice(returned) ==
    /\ hot_water_calls' = <<[is_on |-> request[1].is_on, returned |-> returned]>>
    /\ request' = None
    /\ \E stats_raise \in BOOLEAN, current_rate \in {w.rate : w \in rate_writes} :
          result' =
             IF stats_raise THEN Failure("database error")
             ELSE Some([success |-> TRUE,
                        current_rate |-> current_rate,
                        mode |-> mode,
                        is_heating |-> should_heat[1],
                        is_peak |-> is_peak_time(now),
                        boost_remaining |->
                            IF boost_end_time # None THEN boost_end_time[1] - now ELSE 0])
    /\ UNCHANGED <<now, controller, heating_sessions, rate_fetch, rate_writes, should_heat,
                   cycles, heat_call, nest, scheduler, engine_call, last_adjustment,
                   stats_call, auth, opened_rejected>>

\* the device channel answers: with success, or with an error status or a
\* broken connection, which set_hot_water_state turns into False
NetDeviceAnswer ==
    /\ request # None
    /\ request[1].to = "device"
    /\ \E returned \in DeviceOutcomes : NetAfterDevice(returned)

\* the timeout of the request in flight expires; a request made without a
\* timeout argument has none.  requests raises Timeout, which
\* get_current_rate turns into None and set_hot_water_state into False.
NetTimeout ==
    /\ request # None
    /\ request[1].timeout # None
    /\ IF request[1].to = "rate feed" THEN NetRateUnavailable ELSE NetAfterDevice(FALSE)

NextNet ==
    \/ \E a \in AuthOutcomes : NetBegin(a)
    \/ NetRateAnswer
    \/ NetDeviceAnswer
    \/ NetTimeout

\* a timeout that a request carries does expire; nothing makes a peer
\* answer, and nothing makes a caller start a cycle
SpecNet == Init /\ [][NextNet]_vars /\ WF_vars(NetTimeout)

-----------------------------------------------------------------------------
(* The statistics over table heating_sessions: log_heating_session on        *)
(* sampled sessions, then get_average_heating_duration and get_cost_savings. *)
(* The clock stands still at StoreNow, on a host whose local time is UTC, so *)
(* that the stored datetime.now() and SQLite's datetime('now') are one clock. *)

\* the clock of the statistics: noon of the 46th day
StoreNow == 65520

\* how many days before StoreNow the sampled sessions start
StoreAges == {3, 10, 40}

\* their lengths in minutes; 0 is a session closed at the clock value it was
\* opened at
StoreDurations == {0, 45, 60}

\* their rates: the Agile tariff also has half hours at 0 p/kWh
StoreRates == {0, 20}

\* the sessions handed to log_heating_session: completed ones, and one that
\* is still open
StoreSessions ==
    {[start_time |-> StoreNow - a * MinutesPerDay,
      end_time |-> Some(StoreNow - a * MinutesPerDay + d),
      rate |-> r,
      completed |-> TRUE] : a \in StoreAges, d \in StoreDurations, r \in StoreRates}
    \cup {[start_time |-> StoreNow - 60, end_time |-> None, rate |-> 20, completed |-> FALSE]}

\* the arguments days and period_days
StoreDays == {7, 30}

\* the default of get_average_heating_duration
DefaultDuration == 60

\* get_cost_savings returns pence; the model counts them in 1/StatsUnit of a
\* penny, so that duration_minutes * rate / 60 is a whole number
StatsUnit == 60

\* WHERE start_time >= datetime('now', '-' || days || ' days')
InWindow(row, days) == row.start_time >= now - days * MinutesPerDay

\* the rows the WHERE clause selects
RowsInWindow(days) == SelectSeq(heating_sessions, LAMBDA row : InWindow(row, days))

\* SUM(duration_minutes), the numerator of AVG(duration_minutes)
RECURSIVE SumDuration(_)
SumDuration(rows) ==
    IF rows = <<>> THEN 0
    ELSE Head(rows).duration_minutes + SumDuration(Tail(rows))

\* SUM(duration_minutes * rate / 60), in 1/StatsUnit of a penny
RECURSIVE SumDurationRate(_)
SumDurationRate(rows) ==
    IF rows = <<>> THEN 0
    ELSE (Head(rows).duration_minutes * Head(rows).rate * StatsUnit) \div 60
            + SumDurationRate(Tail(rows))

\* SUM(duration_minutes / 60).  The column duration_minutes is declared
\* INTEGER, so a whole number of minutes is stored as an integer, and SQLite
\* divides an integer by the integer 60 as integers: 45 / 60 is 0 and
\* 90 / 60 is 1.  The durations of the model are whole minutes.
RECURSIVE SumWholeHours(_)
SumWholeHours(rows) ==
    IF rows = <<>> THEN 0
    ELSE (Head(rows).duration_minutes \div 60) + SumWholeHours(Tail(rows))

\* get_average_heating_duration(days), as the fraction <<numerator, denominator>>.
\* AVG is NULL over no rows; "result if result else 60" gives the default for
\* NULL and for an average of 0 alike.
get_average_heating_duration(days) ==
    LET rows == RowsInWindow(days)
    IN  IF Len(rows) = 0 \/ SumDuration(rows) = 0 THEN <<DefaultDuration, 1>>
        ELSE <<SumDuration(rows), Len(rows)>>

\* get_cost_savings(period_days), in 1/StatsUnit of a penny.  SUM is NULL over
\* no rows; "not result[0]" gives the zeros for NULL and for an actual_cost of
\* 0 alike.
get_cost_savings(period_days) ==
    LET rows        == RowsInWindow(period_days)
        actual_cost == SumDurationRate(rows)
        total_hours == SumWholeHours(rows)
        peak_cost   == total_hours * EXPENSIVE_RATE_THRESHOLD * StatsUnit
    IN  IF Len(rows) = 0 \/ actual_cost = 0
        THEN [savings |-> 0, actual_cost |-> 0, peak_cost |-> 0]
        ELSE [savings |-> peak_cost - actual_cost,
              actual_cost |-> actual_cost,
              peak_cost |-> peak_cost]

InitStore ==
    /\ now = StoreNow
    /\ mode = "optimized"
    /\ boost_end_time = None
    /\ heating_windows = <<>>
    /\ current_session = None
    /\ heating_sessions = <<>>
    /\ rate_fetch = "not called"
    /\ rate_writes = {}
    /\ hot_water_calls = <<>>
    /\ should_heat = None
    /\ result = None
    /\ cycles = 0
    /\ heat_call = None
    /\ auth = "not called"
    /\ opened_rejected = FALSE
    /\ request = None
    /\ stats_call = None
    /\ engine_call = None
    /\ last_adjustment = None
    /\ scheduler = [at |-> "idle", due |-> TRUE, opened |-> None]
    /\ nest = [credentials |-> None, refresh_call |-> None]

\* what a direct call leaves alone
StoreFrame ==
    UNCHANGED <<now, controller, rate_fetch, rate_writes, hot_water_calls, should_heat,
                result, cycles, heat_call, nest, scheduler, engine_call, last_adjustment,
                auth, opened_rejected, request>>

\* one call log_heating_session(session)
call_log_heating_session(session) ==
    /\ Len(heating_sessions) < MaxRows
    /\ heating_sessions' = log_heating_session(session)
    /\ stats_call' = None
    /\ StoreFrame

\* one call get_average_heating_duration(days)
call_get_average_heating_duration(days) ==
    /\ stats_call' = Some([op |-> "get_average_heating_duration",
                           days |-> days,
                           returned |-> get_average_heating_duration(days)])
    /\ UNCHANGED heating_sessions
    /\ StoreFrame

\* one call get_cost_savings(period_days)
call_get_cost_savings(period_days) ==
    /\ stats_call' = Some([op |-> "get_cost_savings",
                           days |-> period_days,
                           returned |-> get_cost_savings(period_days)])
    /\ UNCHANGED heating_sessions
    /\ StoreFrame

NextStore ==
    \/ \E session \in StoreSessions : call_log_heating_session(session)
    \/ \E days \in StoreDays : call_get_average_heating_duration(days)
    \/ \E period_days \in StoreDays : call_get_cost_savings(period_days)

SpecStore == InitStore /\ [][NextStore]_vars

-----------------------------------------------------------------------------
(* NestClient.refresh_token_if_needed on its own, on the credentials the     *)
(* constructor left and under a clock that lets them expire.  Credentials    *)
(* are google.oauth2.credentials.Credentials: a token (here: whether there   *)
(* is one), an expiry (None or time) and a refresh token (whether there is   *)
(* one).                                                                     *)

\* minutes a refreshed token lasts
TokenLifetime == 1

Credentials(token, expiry, refresh_token) ==
    [token |-> token, expiry |-> expiry, refresh_token |-> refresh_token]

\* credentials.expired at clock t: there is an expiry and it has passed
expired(c, t) == c.expiry # None /\ t >= c.expiry[1]

\* credentials.valid at clock t: there is a token and it has not expired
valid(c, t) == c.token /\ ~expired(c, t)

\* credentials after credentials.refresh(Request()) at clock t succeeds
refresh(c, t) == [c EXCEPT !.token = TRUE, !.expiry = Some(t + TokenLifetime)]

\* what nest_token.pickle can hold when the client is constructed
PickledCredentials ==
    {None} \cup { Some(Credentials(token, expiry, refresh_token)) :
                     token \in BOOLEAN, expiry \in {None, Some(StartTime + 1)},
                     refresh_token \in BOOLEAN }

\* self.credentials after _load_or_refresh_credentials at clock t, where the
\* file holds pickled, refresh raises or not, and the OAuth flow, if it comes
\* to it, hands out fresh credentials with or without a refresh token
load_or_refresh_credentials(pickled, t, refresh_raises, flow_refresh_token) ==
    LET flow      == Some(Credentials(TRUE, Some(t + TokenLifetime), flow_refresh_token))
        refreshed ==
            IF pickled # None /\ ~valid(pickled[1], t) /\ expired(pickled[1], t)
                  /\ pickled[1].refresh_token
            THEN IF refresh_raises THEN None ELSE Some(refresh(pickled[1], t))
            ELSE pickled
    IN  IF refreshed = None THEN flow ELSE refreshed

\* refresh_token_if_needed() on credentials c at clock t: what it returns,
\* the credentials it leaves and how credentials.refresh ended
refresh_token_if_needed(c, t, refresh_raises, dump_raises) ==
    IF c = None
    THEN [returned |-> FALSE, credentials |-> c, refresh |-> "not tried"]
    ELSE IF ~valid(c[1], t) /\ expired(c[1], t) /\ c[1].refresh_token
    THEN IF refresh_raises
         THEN [returned |-> FALSE, credentials |-> c, refresh |-> "raised"]
         ELSE [returned |-> ~dump_raises, credentials |-> Some(refresh(c[1], t)),
               refresh |-> "ok"]
    ELSE [returned |-> TRUE, credentials |-> c, refresh |-> "not tried"]

AuthFrame ==
    UNCHANGED <<now, mode, boost_end_time, heating_windows, current_session,
                heating_sessions, rate_fetch, rate_writes, hot_water_calls, should_heat,
                result, cycles, heat_call, auth, opened_rejected, request, stats_call,
                engine_call, last_adjustment, scheduler>>

\* NestClient(): the constructor loads the credentials
NestClient__init__(pickled, refresh_raises, flow_refresh_token) ==
    /\ nest' = [credentials  |-> load_or_refresh_credentials(pickled, now, refresh_raises,
                                                             flow_refresh_token),
                refresh_call |-> None]
    /\ AuthFrame

\* a call of refresh_token_if_needed()
call_refresh_token_if_needed(refresh_raises, dump_raises) ==
    LET call == refresh_token_if_needed(nest.credentials, now, refresh_raises, dump_raises)
    IN  /\ nest' = [credentials  |-> call.credentials,
                    refresh_call |-> Some([before   |-> nest.credentials,
                                           at       |-> now,
                                           refresh  |-> call.refresh,
                                           returned |-> call.returned])]
        /\ AuthFrame

NextAuth ==
    \/ Tick
    \/ \E pickled \in PickledCredentials, refresh_raises \in BOOLEAN,
          flow_refresh_token \in BOOLEAN :
          NestClient__init__(pickled, refresh_raises, flow_refresh_token)
    \/ \E refresh_raises \in BOOLEAN, dump_raises \in BOOLEAN :
          call_refresh_token_if_needed(refresh_raises, dump_raises)

SpecAuth == Init /\ [][NextAuth]_vars

-----------------------------------------------------------------------------
(* The temperature decision engine, optimalTemperature, on its own over      *)
(* sampled inputs.  Temperatures are whole tenths of a degree, rates whole   *)
(* pence, and the result is the target in tenths of a degree.                *)

\* HEATING_MIN_TEMP and HEATING_MAX_TEMP of the configuration, in tenths
HEATING_MIN_TEMP == 180
HEATING_MAX_TEMP == 210

Min(a, b) == IF a <= b THEN a ELSE b
Max(a, b) == IF a >= b THEN a ELSE b

\* clamp01 of num / den for den > 0, as the numerator of a fraction over den
clamp01(num, den) == Max(0, Min(num, den))

\* num / den for num >= 0 and den > 0, rounded to the nearest whole number (a
\* tenth of a degree), a tie going up
RoundTenth(num, den) == (2 * num + den) \div (2 * den)

\* optimalTemperature with rateFactor left unclamped
optimalTemperature_unclamped(currentRate, currentTemp, isPeak, rateTrend, minTemp, maxTemp, cheapThreshold, expensiveThreshold) ==
    LET maxPeak    == IF isPeak THEN Min(maxTemp, minTemp + 10) ELSE maxTemp
        maxRising  == IF rateTrend > 0 THEN Min(maxPeak, currentTemp + 5) ELSE maxPeak
        minFalling == IF rateTrend < 0 THEN Max(minTemp, currentTemp - 5) ELSE minTemp
        den        == expensiveThreshold - cheapThreshold
        rateFactor == expensiveThreshold - currentRate
    IN  RoundTenth(Max(0, minFalling * den + (maxRising - minFalling) * rateFactor), den)

optimalTemperature(currentRate, currentTemp, isPeak, rateTrend, minTemp, maxTemp, cheapThreshold, expensiveThreshold) ==
    LET maxPeak    == IF isPeak THEN Min(maxTemp, minTemp + 10) ELSE maxTemp
        maxRising  == IF rateTrend > 0 THEN Min(maxPeak, currentTemp + 5) ELSE maxPeak
        minFalling == IF rateTrend < 0 THEN Max(minTemp, currentTemp - 5) ELSE minTemp
        den        == expensiveThreshold - cheapThreshold
        rateFactor == clamp01(expensiveThreshold - currentRate, den)
    IN  RoundTenth(minFalling * den + (maxRising - minFalling) * rateFactor, den)

\* the configured bounds and thresholds, and a second configuration whose
\* interpolation does not fall on whole tenths
EngineConfigs ==
    { [minTemp |-> HEATING_MIN_TEMP, maxTemp |-> HEATING_MAX_TEMP,
       cheapThreshold |-> CHEAP_RATE_THRESHOLD, expensiveThreshold |-> EXPENSIVE_RATE_THRESHOLD],
      [minTemp |-> 165, maxTemp |-> 215, cheapThreshold |-> 14, expensiveThreshold |-> 21] }

EngineRates  == 12..27
EngineTemps  == {160, 185, 195, 205, 225}
EngineTrends == {-1, 0, 1}

InitEngine ==
    /\ Init

call_optimalTemperature(currentRate, currentTemp, isPeak, rateTrend, config) ==
    /\ engine_call' = Some([op          |-> "optimalTemperature",
                            currentRate |-> currentRate,
                            currentTemp |-> currentTemp,
                            isPeak      |-> isPeak,
                            rateTrend   |-> rateTrend,
                            config      |-> config,
                            returned    |-> optimalTemperature(currentRate, currentTemp, isPeak,
                                                rateTrend, config.minTemp, config.maxTemp,
                                                config.cheapThreshold,
                                                config.expensiveThreshold)])
    /\ UNCHANGED <<now, mode, boost_end_time, heating_windows, current_session,
                   heating_sessions, rate_fetch, rate_writes, hot_water_calls, should_heat,
                   result, cycles, heat_call, nest, scheduler, auth, opened_rejected,
                   request, stats_call, last_adjustment>>

NextEngine ==
    \E currentRate \in EngineRates, currentTemp \in EngineTemps, isPeak \in BOOLEAN,
       rateTrend \in EngineTrends, config \in EngineConfigs :
        call_optimalTemperature(currentRate, currentTemp, isPeak, rateTrend, config)

SpecEngine == InitEngine /\ [][NextEngine]_vars

-----------------------------------------------------------------------------
(* The hysteresis gate shouldUpdateTemperature and the setpoint step of a    *)
(* cycle of the temperature variant: the setpoint command is sent when the   *)
(* gate permits, and LastAdjustment is then the time of that command.        *)

\* the clock of the gate runs for this many minutes from StartTime
MaxGateClock == 31

Abs(x) == IF x < 0 THEN -x ELSE x

\* the least number of minutes between two adjustments, by the difference
\* between current and target temperature in tenths of a degree
TierMinimum(diff) == IF diff > 20 THEN 10 ELSE IF diff > 10 THEN 20 ELSE 30

\* the gate with the 10 minutes of the largest tier for every difference
shouldUpdateTemperature_single_tier(currentTemp, targetTemp, lastAdjustment, t) ==
    IF lastAdjustment = None THEN TRUE
    ELSE t - lastAdjustment[1] >= 10

\* shouldUpdateTemperature(currentTemp, targetTemp, lastAdjustment), with t the
\* clock it reads
shouldUpdateTemperature(currentTemp, targetTemp, lastAdjustment, t) ==
    IF lastAdjustment = None THEN TRUE
    ELSE t - lastAdjustment[1] >= TierMinimum(Abs(currentTemp - targetTemp))

\* target temperatures the engine hands to the gate
GateTargets == {HEATING_MIN_TEMP, HEATING_MAX_TEMP}

\* time passing between cycles
GateTick ==
    /\ now < StartTime + MaxGateClock
    /\ now' = now + 1
    /\ UNCHANGED <<mode, boost_end_time, heating_windows, current_session, heating_sessions,
                   rate_fetch, rate_writes, hot_water_calls, should_heat, result, cycles,
                   heat_call, nest, scheduler, auth, opened_rejected, request, stats_call,
                   engine_call, last_adjustment>>

\* the setpoint step of a cycle: the gate is asked, and when it permits the
\* setpoint command is sent and LastAdjustment becomes the time of the command
adjust_temperature(currentTemp, targetTemp) ==
    LET permitted == shouldUpdateTemperature(currentTemp, targetTemp, last_adjustment, now)
    IN  /\ engine_call' = Some([op             |-> "shouldUpdateTemperature",
                                currentTemp    |-> currentTemp,
                                targetTemp     |-> targetTemp,
                                lastAdjustment |-> last_adjustment,
                                at             |-> now,
                                returned       |-> permitted])
        /\ last_adjustment' = IF permitted THEN Some(now) ELSE last_adjustment
        /\ UNCHANGED <<now, mode, boost_end_time, heating_windows, current_session,
                       heating_sessions, rate_fetch, rate_writes, hot_water_calls,
                       should_heat, result, cycles, heat_call, nest, scheduler, auth,
                       opened_rejected, request, stats_call>>

NextGate ==
    \/ GateTick
    \/ \E currentTemp \in EngineTemps, targetTemp \in GateTargets :
          adjust_temperature(currentTemp, targetTemp)

SpecGate == Init /\ [][NextGate]_vars

-----------------------------------------------------------------------------
(* should_heat_water on its own, over sampled controller states and clocks *)

HeatModes == {"optimized", "boost", "off"}

\* boost_end_time: None, or 17:00 on the Monday
HeatBoosts == {None, Some(1020)}

HeatRates == {10, 15, 20}

\* minutes of the day the clock is sampled at: 12:59, 13:00, 13:30, 14:00,
\* 14:01, 15:59, 16:00, 17:00, 19:00, 19:01, 23:45
HeatMinutes == {779, 780, 810, 840, 841, 959, 960, 1020, 1140, 1141, 1425}

\* the sampled clocks: those minutes on the Monday, and 00:15 and 13:30 on the
\* Tuesday
HeatTimes == HeatMinutes \cup {MinutesPerDay + 15, MinutesPerDay + 810}

HeatWindows == {W1300, W2330, W1630, WOff, WTue, WBad}

HeatWindowLists == UNION {[1..n -> HeatWindows] : n \in 0..MaxHeatWindows}

InitHeat ==
    /\ now \in HeatTimes
    /\ mode \in HeatModes
    /\ boost_end_time \in HeatBoosts
    /\ heating_windows \in HeatWindowLists
    /\ current_session = None
    /\ heating_sessions = <<>>
    /\ rate_fetch = "not called"
    /\ rate_writes = {}
    /\ hot_water_calls = <<>>
    /\ should_heat = None
    /\ result = None
    /\ cycles = 0
    /\ heat_call = None
    /\ auth = "not called"
    /\ opened_rejected = FALSE
    /\ request = None
    /\ stats_call = None
    /\ engine_call = None
    /\ last_adjustment = None
    /\ scheduler = [at |-> "idle", due |-> TRUE, opened |-> None]
    /\ nest = [credentials |-> None, refresh_call |-> None]

\* one call should_heat_water(current_rate).  The clock may move by a minute
\* between the call's own datetime.now() and the one of is_peak_time, when the
\* call is made at a sampled time.
call_should_heat_water ==
    \E current_rate \in HeatRates, d \in {0, 1} :
        /\ d = 0 \/ now \in HeatTimes
        /\ heat_call' =
              Some([current_rate |-> current_rate,
                    at |-> now,
                    peak_at |-> now + d,
                    repeated |-> /\ heat_call # None
                                 /\ heat_call[1].current_rate = current_rate
                                 /\ heat_call[1].at = now
                                 /\ heat_call[1].peak_at = now + d,
                    raised |-> ShouldHeatRaises(mode, boost_end_time, heating_windows,
                                                current_rate, now, now + d),
                    returned |->
                        IF ShouldHeatRaises(mode, boost_end_time, heating_windows,
                                            current_rate, now, now + d)
                        THEN None
                        ELSE Some(should_heat_water(mode, boost_end_time, heating_windows,
                                                    current_rate, now, now + d))])
        /\ now' = now + d
        /\ UNCHANGED <<controller, heating_sessions, rate_fetch, rate_writes,
                       hot_water_calls, should_heat, result, cycles, auth, opened_rejected,
                       request, stats_call, engine_call, last_adjustment, scheduler, nest>>

NextHeat == call_should_heat_water

SpecHeat == InitHeat /\ [][NextHeat]_vars

-----------------------------------------------------------------------------
(* Properties of the control cycle, checked under Spec *)

\* the step is a call of run
RunStep == cycles' # cycles

\* C1: a cycle in which get_current_rate returns None returns success = false,
\* calls set_hot_water_state not at all, writes no rate row and no session
\* row, and leaves current_session as it was, open or not.
C1_RateUnavailableChangesNothing ==
    [][(RunStep /\ rate_fetch' = "None") =>
          /\ result' # None
          /\ ~result'[1].success
          /\ hot_water_calls' = <<>>
          /\ rate_writes' = {}
          /\ heating_sessions' = heating_sessions
          /\ current_session' = current_session]_vars

\* a cycle failed on the rate fetch while a session was open
C1_Witness ==
    /\ rate_fetch = "None"
    /\ result # None
    /\ current_session # None

\* C2: every call of run returns a dict with a success flag, whichever step
\* failed, and a dict whose success is false carries an error message.
C2_RunAlwaysReturnsRecord ==
    [][RunStep =>
          /\ result' # None
          /\ "success" \in DOMAIN result'[1]
          /\ (~result'[1].success => "error" \in DOMAIN result'[1])]_vars

\* a cycle failed because log_heating_session raised while closing a session
C2_Witness ==
    /\ result = Failure("database error")
    /\ should_heat = Some(FALSE)
    /\ hot_water_calls = <<>>
    /\ current_session # None

\* C3: a cycle that returns success = false leaves current_session, mode,
\* boost_end_time, heating_windows and the stored sessions as they were.
C3_FailedCycleChangesNothing ==
    [][(RunStep /\ ~result'[1].success) =>
          UNCHANGED <<current_session, mode, boost_end_time, heating_windows,
                      heating_sessions>>]_vars

\* C4 as claimed: the cycle whose decision is not to heat while a session is
\* held writes that session, as one row, and leaves current_session null.
C4_WrittenWhenDecisionGoesFalse ==
    [][(RunStep /\ current_session # None /\ should_heat' = Some(FALSE)) =>
          /\ Len(heating_sessions') = Len(heating_sessions) + 1
          /\ current_session' = None]_vars

\* C4 as amended: rows are written only by a cycle that decides not to heat
\* while a session is held, one row for that session, completed, after which
\* current_session is null, so that no session is written twice and none
\* that is still open; such a cycle writes the row unless log_heating_session
\* raises, and then it writes nothing, fails, and keeps the session.
C4_WrittenOnceOnClose ==
    [][/\ ~RunStep => heating_sessions' = heating_sessions
       /\ (RunStep /\ heating_sessions' # heating_sessions) =>
             /\ current_session # None
             /\ should_heat' = Some(FALSE)
             /\ current_session' = None
             /\ Len(heating_sessions') = Len(heating_sessions) + 1
             /\ SubSeq(heating_sessions', 1, Len(heating_sessions)) = heating_sessions
             /\ LET row == heating_sessions'[Len(heating_sessions')]
                IN  /\ row.start_time = current_session[1].start_time
                    /\ row.rate = current_session[1].rate
                    /\ row.end_time >= now
       /\ (RunStep /\ current_session # None /\ should_heat' = Some(FALSE)
              /\ heating_sessions' = heating_sessions) =>
             /\ ~result'[1].success
             /\ hot_water_calls' = <<>>
             /\ current_session' # None
             /\ current_session'[1].start_time = current_session[1].start_time
             /\ current_session'[1].rate = current_session[1].rate]_vars

\* a cycle has just closed a session and written it
C4_Witness ==
    /\ should_heat = Some(FALSE)
    /\ hot_water_calls # <<>>
    /\ current_session = None
    /\ Len(heating_sessions) = 1

\* C11: a cycle that decides to heat while a session is open leaves
\* current_session as it is: no second session, the same start_time and rate,
\* whatever rate the cycle fetched.
C11_OpenSessionKept ==
    [][(RunStep /\ current_session # None /\ should_heat' = Some(TRUE)) =>
          /\ current_session' = current_session
          /\ heating_sessions' = heating_sessions]_vars

\* a cycle decided to heat, at a rate other than the one of the session it holds
C11_Witness ==
    /\ should_heat = Some(TRUE)
    /\ current_session # None
    /\ hot_water_calls # <<>>
    /\ \E w \in rate_writes : w.rate # current_session[1].rate

\* C23: the steps of a cycle come in the order auth refresh, rate fetch, rate
\* log, heating decision, session transition, device command, status record:
\* a cycle that did not get through a step has done none of the later ones,
\* and the clock values the steps read do not go back.  A cycle that reaches
\* the device step sends exactly one hot-water command, whose on/off value is
\* the decision that drove the session transition and the is_heating flag of
\* the status record.
C23_StepsInOrder ==
    [][RunStep =>
          /\ auth' = "raised" => rate_fetch' = "not called"
          /\ rate_fetch' # "rate" => rate_writes' = {}
          /\ rate_writes' = {} => should_heat' = None
          /\ should_heat' = None =>
                /\ current_session' = current_session
                /\ heating_sessions' = heating_sessions
                /\ hot_water_calls' = <<>>
          /\ hot_water_calls' = <<>> => ~result'[1].success
          /\ hot_water_calls' # <<>> =>
                /\ Len(hot_water_calls') = 1
                /\ hot_water_calls'[1].is_on = should_heat'[1]
                /\ (current_session' # None) = should_heat'[1]
                /\ Len(heating_sessions') =
                      IF current_session # None /\ ~should_heat'[1]
                      THEN Len(heating_sessions) + 1 ELSE Len(heating_sessions)
                /\ result'[1].success =>
                      result'[1].is_heating = hot_water_calls'[1].is_on
          /\ \A w \in rate_writes' :
                /\ now <= w.timestamp
                /\ w.timestamp <= now'
                /\ (current_session = None /\ current_session' # None) =>
                      /\ w.timestamp <= current_session'[1].start_time
                      /\ current_session'[1].start_time <= now'
                      /\ current_session'[1].rate = w.rate]_vars

\* a cycle switched the hot water on, opened a session and returned its
\* status record, while the clock moved between the rate log and the session
C23_Witness ==
    /\ result # None
    /\ result[1].success
    /\ result[1].is_heating
    /\ hot_water_calls # <<>>
    /\ hot_water_calls[1].is_on
    /\ current_session # None
    /\ \E w \in rate_writes : w.timestamp < current_session[1].start_time

\* C24: in every state reached through set_mode calls, with any mode and any
\* boost_duration, 0 and None included, mode boost has a boost_end_time.
C24_BoostHasExpiry == mode = "boost" => boost_end_time # None

\* C26: after every cycle that returns success = true, current_session is
\* non-null exactly when the is_heating flag of the record is true, whatever
\* cycles, set_mode calls and add_heating_window calls came before.
C26_SessionFollowsHeating ==
    (result # None /\ result[1].success) =>
        ((current_session # None) = result[1].is_heating)

\* a cycle closed, after set_mode("off"), the session an earlier cycle opened
C26_Witness ==
    /\ result # None
    /\ result[1].success
    /\ ~result[1].is_heating
    /\ mode = "off"
    /\ current_session = None
    /\ Len(heating_sessions) = 1

\* C27: a record returned with success = true in mode optimized never has
\* is_heating and is_peak both true, also when the clock advances between
\* the heating decision and the evaluation of the peak flag.
C27_NeverHeatingInPeak ==
    (result # None /\ result[1].success /\ result[1].mode = "optimized") =>
        ~(result[1].is_heating /\ result[1].is_peak)

\* the boost is over: mode boost with an expiry the clock has reached
BoostExpired == mode = "boost" /\ boost_end_time # None /\ boost_end_time[1] <= now

\* C28: run leaves mode, boost_end_time and heating_windows as they are, so
\* that after a boost expired the mode stays boost and every cycle that
\* comes to a decision decides not to heat, whatever the rate and the
\* windows; set_mode and add_heating_window leave current_session as it is
\* and send no device command.
C28_RunAndCommandsKeepApart ==
    [][/\ RunStep =>
             /\ UNCHANGED <<mode, boost_end_time, heating_windows>>
             /\ (BoostExpired /\ should_heat' # None) =>
                   /\ should_heat' = Some(FALSE)
                   /\ hot_water_calls' # <<>> => ~hot_water_calls'[1].is_on
       /\ (mode' # mode \/ boost_end_time' # boost_end_time
              \/ heating_windows' # heating_windows) =>
             /\ current_session' = current_session
             /\ heating_sessions' = heating_sessions
             /\ hot_water_calls' = <<>>
             /\ result' = None]_vars

\* a cycle after the boost expired, outside the peak interval, at a cheap rate
\* and with a window stored, switched the hot water off
C28_Witness ==
    /\ BoostExpired
    /\ should_heat = Some(FALSE)
    /\ result # None
    /\ result[1].success
    /\ ~result[1].is_peak
    /\ hot_water_calls # <<>>
    /\ heating_windows # <<>>
    /\ \E w \in rate_writes : w.rate < CHEAP_RATE_THRESHOLD

\* C29: in every state reached through set_mode calls and cycles, a non-null
\* boost_end_time implies mode boost: a set_mode call with another mode
\* clears the expiry.
C29_ExpiryOnlyInBoost == boost_end_time # None => mode = "boost"

\* a cycle ran in optimized mode after a boost that had an expiry: the
\* session of the boost is closed and no expiry is left
C29_Witness ==
    /\ mode = "optimized"
    /\ boost_end_time = None
    /\ result # None
    /\ result[1].success
    /\ result[1].boost_remaining = 0
    /\ Len(heating_sessions) = 1
    /\ heating_sessions[1].rate >= CHEAP_RATE_THRESHOLD

\* a window as the HeatingWindow dataclass documents it: start_time HH:MM,
\* days within 0..6, a duration that is not negative
WellFormed(w) ==
    /\ Len(w.start_time) = 5
    /\ strptime(w.start_time) # -1
    /\ w.days \subseteq 0..6
    /\ w.duration >= 0

\* C16: no malformed window is ever in heating_windows, and no cycle fails
\* because of a stored window.
C16_NoMalformedWindowStored ==
    /\ \A i \in 1..Len(heating_windows) : WellFormed(heating_windows[i])
    /\ result # Failure("time data does not match format")

-----------------------------------------------------------------------------
(* Properties of the life of a session, checked under SpecSession *)

\* C12: every session written to the store has its end_time after its
\* start_time.  The clock of the model counts whole minutes, so a session
\* closed within the minute it was opened shows equal times here; the formula
\* states what whole minutes can show, that no stored session ends before it
\* starts.
C12_EndAfterStart ==
    \A i \in 1..Len(heating_sessions) :
        heating_sessions[i].end_time >= heating_sessions[i].start_time

\* the row the step appended to heating_sessions
NewRow == heating_sessions'[Len(heating_sessions')]

\* C13: the cost stored with a session is (end_time - start_time in minutes
\* / 60) * rate * 3, with the rate of the cycle that opened the session, not
\* the rate of the cycle that closes it.  Costs are counted in 1/CostUnit of
\* a penny.
C13_CostAtOpeningRate ==
    [][(RunStep /\ Len(heating_sessions') = Len(heating_sessions) + 1) =>
          /\ current_session # None
          /\ NewRow.rate = current_session[1].rate
          /\ NewRow.start_time = current_session[1].start_time
          /\ NewRow.duration_minutes = NewRow.end_time - NewRow.start_time
          /\ NewRow.cost * 60 = NewRow.duration_minutes * current_session[1].rate * 3 * CostUnit]_vars

\* a session of two minutes was stored by a cycle that fetched another rate
\* than the one the session was opened at
C13_Witness ==
    /\ Len(heating_sessions) >= 1
    /\ should_heat = Some(FALSE)
    /\ hot_water_calls # <<>>
    /\ LET row == heating_sessions[Len(heating_sessions)]
       IN  /\ row.duration_minutes = 2
           /\ row.cost * 60 = 2 * row.rate * 3 * CostUnit
           /\ \E w \in rate_writes : w.rate # row.rate

\* C14: a cycle in which refresh_token_if_needed returns False or raises
\* returns success = false with an error, evaluates no heating decision,
\* leaves current_session as it was and calls set_hot_water_state not at all.
C14_AuthFailureAborts ==
    [][(RunStep /\ auth' \in {"failed", "raised"}) =>
          /\ result' # None
          /\ ~result'[1].success
          /\ "error" \in DOMAIN result'[1]
          /\ should_heat' = None
          /\ current_session' = current_session
          /\ heating_sessions' = heating_sessions
          /\ hot_water_calls' = <<>>]_vars

\* the cycle opened a session and the device rejected its command
OpensRejected ==
    /\ RunStep
    /\ current_session = None
    /\ hot_water_calls' = <<[is_on |-> TRUE, returned |-> FALSE]>>

\* the cycle holds a session opened under a rejected command and decides not
\* to heat
ClosesRejected == RunStep /\ opened_rejected /\ should_heat' = Some(FALSE)

\* the step wrote the session current_session held and cleared current_session
WritesHeldSession ==
    /\ current_session' = None
    /\ Len(heating_sessions') = Len(heating_sessions) + 1
    /\ NewRow.start_time = current_session[1].start_time
    /\ NewRow.rate = current_session[1].rate

\* the session the device's rejection left open stays as it was opened
RejectedSessionStays ==
    /\ OpensRejected =>
          /\ result' # None
          /\ current_session' # None
          /\ ~current_session'[1].completed
          /\ current_session'[1].end_time = None
          /\ \E w \in rate_writes' : current_session'[1].rate = w.rate
    /\ (opened_rejected /\ current_session' # None) =>
          /\ current_session'[1].start_time = current_session[1].start_time
          /\ current_session'[1].rate = current_session[1].rate

\* C15 as claimed: a session opened by a cycle whose command the device
\* rejected stays open with its start_time and rate, the cycle returns, and
\* the later cycle that decides not to heat closes and writes that session.
C15_RejectedSessionWrittenOnClose ==
    [][/\ RejectedSessionStays
       /\ ClosesRejected => WritesHeldSession]_vars

\* C15 as amended: the same, but the cycle that decides not to heat writes
\* the session unless log_heating_session raises; then it returns
\* success = false, commands nothing, writes nothing and still holds the
\* session.
C15_RejectedSessionKept ==
    [][/\ RejectedSessionStays
       /\ ClosesRejected =>
             \/ WritesHeldSession
             \/ /\ ~result'[1].success
                /\ hot_water_calls' = <<>>
                /\ heating_sessions' = heating_sessions
                /\ current_session' # None]_vars

\* the device has rejected the command of the cycle that opened the session held
C15_Witness ==
    /\ opened_rejected
    /\ current_session # None
    /\ hot_water_calls = <<[is_on |-> TRUE, returned |-> FALSE]>>
    /\ result # None
    /\ result[1].success

-----------------------------------------------------------------------------
(* Properties of the periodic scheduler, checked under SpecSchedule *)

\* C22: under the scheduler, the first invocation that decides not to heat
\* after an invocation that decided to heat and opened a session closes that
\* session and writes it, with its cost, as a row of heating_sessions.
C22_ScheduledSessionClosed ==
    [][(RunStep /\ scheduler.at = "main" /\ scheduler.opened # None
            /\ should_heat' = Some(FALSE) /\ result'[1].success) =>
          /\ Len(heating_sessions') = Len(heating_sessions) + 1
          /\ heating_sessions'[Len(heating_sessions')].start_time
                 = scheduler.opened[1].start_time]_vars

-----------------------------------------------------------------------------
(* Properties of the waits of a cycle, checked under SpecNet *)

\* C17: every call of run that waits for the rate feed or for the device
\* channel returns in the end, also when no answer ever comes.
C17_EveryCycleReturns == (request # None) ~> (request = None)

-----------------------------------------------------------------------------
(* Properties of the auth refresh, checked under SpecAuth *)

\* C25: refresh_token_if_needed returns True only if the credentials are
\* valid when it returns, and returns False whenever there are no
\* credentials, or they are invalid and cannot be refreshed: the refresh
\* raised, they are not expired, or they have no refresh token.
C25_OkOnlyWhenValid ==
    nest.refresh_call # None =>
        LET call   == nest.refresh_call[1]
            before == call.before
            after  == nest.credentials
        IN  /\ call.returned => (after # None /\ valid(after[1], call.at))
            /\ before = None => ~call.returned
            /\ (before # None /\ ~valid(before[1], call.at)
                  /\ \/ call.refresh = "raised"
                     \/ ~expired(before[1], call.at)
                     \/ ~before[1].refresh_token) => ~call.returned

-----------------------------------------------------------------------------
(* Properties of the statistics, checked under SpecStore *)

\* C18: get_average_heating_duration(days) returns the mean of
\* duration_minutes over the stored sessions that start in the last days days
\* when there is one, and 60 when there is none.
C18_MeanOrDefault ==
    (stats_call # None /\ stats_call[1].op = "get_average_heating_duration") =>
        LET rows     == RowsInWindow(stats_call[1].days)
            returned == stats_call[1].returned
        IN  IF Len(rows) = 0 THEN returned = <<60, 1>>
            ELSE returned[1] * Len(rows) = SumDuration(rows) * returned[2]

\* SUM(duration_minutes) * EXPENSIVE_RATE_THRESHOLD / 60 without rounding, in
\* 1/StatsUnit of a penny
PeakCostClaimed(rows) == (SumDuration(rows) * EXPENSIVE_RATE_THRESHOLD * StatsUnit) \div 60

\* C19: over the sessions of the period, when there is one, get_cost_savings
\* returns actual_cost = sum(duration_minutes / 60 * rate),
\* peak_cost = sum(duration_minutes / 60) * EXPENSIVE_RATE_THRESHOLD and
\* savings = peak_cost - actual_cost; when there is none it returns zeros.
C19_SavingsAgainstPeak ==
    (stats_call # None /\ stats_call[1].op = "get_cost_savings") =>
        LET rows     == RowsInWindow(stats_call[1].days)
            returned == stats_call[1].returned
        IN  IF Len(rows) = 0
            THEN returned = [savings |-> 0, actual_cost |-> 0, peak_cost |-> 0]
            ELSE /\ returned.actual_cost = SumDurationRate(rows)
                 /\ returned.peak_cost = PeakCostClaimed(rows)
                 /\ returned.savings = PeakCostClaimed(rows) - SumDurationRate(rows)

-----------------------------------------------------------------------------
(* Properties of optimalTemperature, checked under SpecEngine *)

\* a call of optimalTemperature outside the peak with a flat rate trend
PlainCall(call) ==
    /\ call # None
    /\ call[1].op = "optimalTemperature"
    /\ ~call[1].isPeak
    /\ call[1].rateTrend = 0

\* C20: with isPeak false and rateTrend 0, optimalTemperature returns the
\* tenth of a degree nearest to minTemp + (maxTemp - minTemp) *
\* clamp01((expensive - rate) / (expensive - cheap)): maxTemp for every rate
\* at or below the cheap threshold, minTemp for every rate at or above the
\* expensive threshold, the midpoint temperature for the midpoint rate (19.5
\* for rate 20 with 18, 21, 15, 25), and a call with a higher rate never
\* returns a higher target than the call before it with the same bounds.
C20_RateInterpolation ==
    [][PlainCall(engine_call') =>
        LET call == engine_call'[1]
            c    == call.config
            den  == c.expensiveThreshold - c.cheapThreshold
            line == IF call.currentRate <= c.cheapThreshold THEN c.maxTemp * den
                    ELSE IF call.currentRate >= c.expensiveThreshold THEN c.minTemp * den
                    ELSE c.minTemp * den
                         + (c.maxTemp - c.minTemp) * (c.expensiveThreshold - call.currentRate)
        IN  /\ 2 * (call.returned * den - line) <= den
            /\ 2 * (line - call.returned * den) <= den
            /\ call.currentRate <= c.cheapThreshold => call.returned = c.maxTemp
            /\ call.currentRate >= c.expensiveThreshold => call.returned = c.minTemp
            /\ 2 * call.currentRate = c.cheapThreshold + c.expensiveThreshold
                   => 2 * call.returned = c.minTemp + c.maxTemp
            /\ (c.minTemp = 180 /\ c.maxTemp = 210 /\ c.cheapThreshold = 15
                /\ c.expensiveThreshold = 25 /\ call.currentRate = 20) => call.returned = 195
            /\ (PlainCall(engine_call) /\ engine_call[1].config = c
                /\ engine_call[1].currentRate <= call.currentRate)
                   => call.returned <= engine_call[1].returned
    ]_vars

C20_Witness ==
    /\ PlainCall(engine_call)
    /\ engine_call[1].config.minTemp = 180
    /\ engine_call[1].config.maxTemp = 210
    /\ engine_call[1].currentRate = 20
    /\ engine_call[1].returned = 195

\* C30: the target optimalTemperature returns lies within the configured
\* [minTemp, maxTemp], for every current temperature, rate trend, peak flag
\* and rate.
C30_TargetWithinBounds ==
    (engine_call # None /\ engine_call[1].op = "optimalTemperature") =>
        /\ engine_call[1].config.minTemp <= engine_call[1].returned
        /\ engine_call[1].returned <= engine_call[1].config.maxTemp

-----------------------------------------------------------------------------
(* Properties of the hysteresis gate, checked under SpecGate *)

\* a call of shouldUpdateTemperature has just been made
GateCall == engine_call # None /\ engine_call[1].op = "shouldUpdateTemperature"

\* C21: shouldUpdateTemperature returns true when there is no prior
\* adjustment; with one, it returns false whenever the minutes since
\* lastAdjustment are fewer than 10 for a difference above 2 degrees, 20 for
\* one above 1 degree and 30 otherwise; so a setpoint command is never sent
\* less than 10 minutes after the one before it.
C21_GateHoldsBack ==
    GateCall =>
        LET call    == engine_call[1]
            diff    == IF call.currentTemp >= call.targetTemp
                       THEN call.currentTemp - call.targetTemp
                       ELSE call.targetTemp - call.currentTemp
            elapsed == call.at - call.lastAdjustment[1]
        IN  IF call.lastAdjustment = None THEN call.returned
            ELSE /\ (diff > 20 /\ elapsed < 10) => ~call.returned
                 /\ (diff > 10 /\ diff <= 20 /\ elapsed < 20) => ~call.returned
                 /\ (diff <= 10 /\ elapsed < 30) => ~call.returned
                 /\ call.returned => (last_adjustment = Some(call.at) /\ elapsed >= 10)

\* a second setpoint command was sent, 10 minutes or more after the first,
\* at a difference of 1.5 degrees
C21_Witness ==
    /\ GateCall
    /\ engine_call[1].lastAdjustment # None
    /\ engine_call[1].returned
    /\ engine_call[1].currentTemp = 195
    /\ engine_call[1].targetTemp = 180

-----------------------------------------------------------------------------
(* Properties of should_heat_water, checked under SpecHeat *)

\* 16:00 and 19:00 as minutes of the day
PeakStartMinute == 960

PeakEndMinute == 1140

InPeak(t) == PeakStartMinute <= TimeOfDay(t) /\ TimeOfDay(t) <= PeakEndMinute

\* window w is enabled, is for the weekday of t, has a start HH:MM, and the
\* time of day of t lies in start .. start + duration, counted in minutes
Contains(w, t) ==
    /\ w.enabled
    /\ weekday(t) \in w.days
    /\ strptime(w.start_time) # -1
    /\ strptime(w.start_time) <= TimeOfDay(t)
    /\ TimeOfDay(t) <= strptime(w.start_time) + w.duration

\* every window of the list has a start of the form HH:MM
AllHHMM(ws) == \A i \in 1..Len(ws) : Len(ws[i].start_time) = 5 /\ strptime(ws[i].start_time) # -1

\* C5: with mode off should_heat_water returns False, whatever the rate, the
\* clock, the windows and boost_end_time.
C5_OffNeverHeats ==
    (heat_call # None /\ mode = "off") =>
        ~heat_call[1].raised /\ heat_call[1].returned = Some(FALSE)

\* mode off, a cheap rate, a Monday window that contains the clock, an expiry ahead
C5_Witness ==
    /\ heat_call # None
    /\ mode = "off"
    /\ heat_call[1].current_rate < CHEAP_RATE_THRESHOLD
    /\ heat_call[1].at = 810
    /\ Len(heating_windows) >= 1
    /\ heating_windows[1] = W1300
    /\ boost_end_time # None

\* C6: with mode boost should_heat_water returns True when now is before the
\* expiry, False when now is at or after it, and False when there is no
\* expiry, whatever the rate, the windows and the peak interval.
C6_BoostUntilExpiry ==
    (heat_call # None /\ mode = "boost") =>
        /\ ~heat_call[1].raised
        /\ (boost_end_time # None /\ heat_call[1].at < boost_end_time[1])
              => heat_call[1].returned = Some(TRUE)
        /\ (boost_end_time # None /\ heat_call[1].at >= boost_end_time[1])
              => heat_call[1].returned = Some(FALSE)
        /\ boost_end_time = None => heat_call[1].returned = Some(FALSE)

\* boost ahead of its expiry, inside the peak interval, at an expensive rate
C6_Witness ==
    /\ heat_call # None
    /\ mode = "boost"
    /\ boost_end_time # None
    /\ heat_call[1].at < boost_end_time[1]
    /\ InPeak(heat_call[1].at)
    /\ heat_call[1].current_rate > CHEAP_RATE_THRESHOLD
    /\ heat_call[1].returned = Some(TRUE)

\* C7: in optimized mode, when the clock is_peak_time reads is from 16:00 to
\* 19:00, both included, should_heat_water returns False, also when a window
\* matches and the rate is cheap.
C7_PeakNeverHeats ==
    (heat_call # None /\ mode = "optimized" /\ InPeak(heat_call[1].peak_at)) =>
        ~heat_call[1].raised /\ heat_call[1].returned = Some(FALSE)

\* optimized at 17:00 on Monday, a cheap rate and the window 16:30 to 17:30 first
C7_Witness ==
    /\ heat_call # None
    /\ mode = "optimized"
    /\ heat_call[1].peak_at = 1020
    /\ heat_call[1].current_rate < CHEAP_RATE_THRESHOLD
    /\ Len(heating_windows) >= 1
    /\ Contains(heating_windows[1], heat_call[1].at)
    /\ heat_call[1].returned = Some(FALSE)

\* C8: in optimized mode outside the peak interval should_heat_water returns
\* True when some enabled window for the weekday has
\* start <= time of day <= start + duration, also past midnight (stated here
\* for lists whose windows all have a start HH:MM).
C8_WindowAlwaysHeats ==
    (/\ heat_call # None
     /\ mode = "optimized"
     /\ ~InPeak(heat_call[1].at)
     /\ ~InPeak(heat_call[1].peak_at)
     /\ AllHHMM(heating_windows)
     /\ \E i \in 1..Len(heating_windows) : Contains(heating_windows[i], heat_call[1].at))
    => (~heat_call[1].raised /\ heat_call[1].returned = Some(TRUE))

\* C9: in optimized mode outside the peak interval, when no enabled window
\* for the weekday contains the time, should_heat_water returns
\* current_rate < CHEAP_RATE_THRESHOLD.
C9_NoWindowFollowsRate ==
    (/\ heat_call # None
     /\ mode = "optimized"
     /\ ~InPeak(heat_call[1].at)
     /\ ~InPeak(heat_call[1].peak_at)
     /\ \A i \in 1..Len(heating_windows) : ~Contains(heating_windows[i], heat_call[1].at))
    => /\ ~heat_call[1].raised
       /\ heat_call[1].returned = Some(heat_call[1].current_rate < CHEAP_RATE_THRESHOLD)

====
